---------------------------- MODULE Spec2Model ----------------------------
(***************************************************************************)
(* A model of the pydec IDEC/ii uplink client (uplink.py, message.py).     *)
(*                                                                         *)
(* A str is a sequence of code points, a bytes object a sequence of        *)
(* octets.  Every method of Uplink is one blocking call: it validates its  *)
(* arguments, builds the URL, performs one HTTP exchange and parses the    *)
(* response.  A call is one action; the arguments of the call and the      *)
(* bytes the uplink answers with are chosen by Init.                       *)
(***************************************************************************)
EXTENDS Integers, Sequences, FiniteSets, TLC

VARIABLES
    url,        \* Uplink.url, as normalised by Uplink.__init__
    args,       \* the arguments of the call: [name, coll, start, end, text]
    uplink,     \* what the uplink holds and renders its response from
    response,   \* the bytes the uplink's HTTP response body holds
    pc,         \* "ready" before the call, "done" after it returned or raised
    op,         \* the method that was called
    requests,   \* the URLs handed to urllib.request.urlopen during the call
    ret         \* [exc, msg, val]: the exception raised ("none": returned val)

vars == <<url, args, uplink, response, pc, op, requests, ret>>

----------------------------------------------------------------------------
(* Characters.                                                             *)

Code == [c \in {"NL", "SP", "+", "-", ".", "/", "0", "1", "2", "5", "7", ":", "=", "_",
                "a", "b", "c", "d", "e", "f", "g", "h", "i", "k", "l", "m", "n", "o", "p",
                "r", "s", "t", "u", "x", "eacute"} |->
    CASE c = "NL" -> 10  [] c = "SP" -> 32  [] c = "+" -> 43   [] c = "-" -> 45
      [] c = "." -> 46   [] c = "/" -> 47   [] c = "0" -> 48   [] c = "1" -> 49
      [] c = "2" -> 50   [] c = "5" -> 53   [] c = "7" -> 55   [] c = ":" -> 58
      [] c = "=" -> 61   [] c = "_" -> 95   [] c = "a" -> 97   [] c = "b" -> 98
      [] c = "c" -> 99   [] c = "d" -> 100  [] c = "e" -> 101  [] c = "f" -> 102
      [] c = "g" -> 103  [] c = "h" -> 104  [] c = "i" -> 105  [] c = "k" -> 107
      [] c = "l" -> 108
      [] c = "m" -> 109  [] c = "n" -> 110  [] c = "o" -> 111  [] c = "p" -> 112
      [] c = "r" -> 114  [] c = "s" -> 115  [] c = "t" -> 116  [] c = "u" -> 117
      [] c = "x" -> 120  [] c = "eacute" -> 233]

\* A string literal: S(<<"u", "/", "e">>) is the str 'u/e'.
S(cs) == [i \in 1..Len(cs) |-> Code[cs[i]]]

\* c * n
Rep(c, n) == [i \in 1..n |-> Code[c]]

\* The characters str.strip(), str.split() and int() take for white space.
Whitespace == {9, 10, 11, 12, 13, 28, 29, 30, 31, 32, 133, 160, 5760, 8232, 8233,
               8239, 8287, 12288} \cup (8192..8202)

Digits == 48..57

----------------------------------------------------------------------------
(* The str and list methods the client uses.                               *)

\* str.isascii()
isascii(s) == \A i \in 1..Len(s) : s[i] <= 127

\* c in s
contains(s, c) == \E i \in 1..Len(s) : s[i] = c

\* str.strip(chars): what lies between the first and the last character not
\* in chars; str.strip() is strip(s, Whitespace).
strip(s, chars) ==
    IF \A i \in 1..Len(s) : s[i] \in chars THEN <<>>
    ELSE LET lo == CHOOSE i \in 1..Len(s) :
                      s[i] \notin chars /\ \A j \in 1..(i - 1) : s[j] \in chars
             hi == CHOOSE i \in 1..Len(s) :
                      s[i] \notin chars /\ \A j \in (i + 1)..Len(s) : s[j] \in chars
         IN  SubSeq(s, lo, hi)

\* The fields of s between the characters of seps: one more than there are
\* separators.  The fields of two halves are those of the left, then those of
\* the right, the last of the left and the first of the right being one field.
RECURSIVE splitAt(_, _)
splitAt(s, seps) ==
    IF s = <<>> THEN <<<<>>>>
    ELSE IF Len(s) = 1 THEN (IF s[1] \in seps THEN <<<<>>, <<>>>> ELSE <<s>>)
    ELSE LET h == Len(s) \div 2
             l == splitAt(SubSeq(s, 1, h), seps)
             r == splitAt(SubSeq(s, h + 1, Len(s)), seps)
         IN  SubSeq(l, 1, Len(l) - 1) \o <<l[Len(l)] \o r[1]>> \o Tail(r)

\* str.split(sep) for a one-character sep: always at least one field.
split(s, sep) == splitAt(s, {sep})

\* str.split(sep, 1): cut at the first sep only.
split1(s, sep) ==
    IF \A i \in 1..Len(s) : s[i] # sep THEN <<s>>
    ELSE LET i == CHOOSE i \in 1..Len(s) : s[i] = sep /\ \A j \in 1..(i - 1) : s[j] # sep
         IN  <<SubSeq(s, 1, i - 1), SubSeq(s, i + 1, Len(s))>>

\* filter(lambda x: x, parts)
filterNonEmpty(parts) == SelectSeq(parts, LAMBDA x : x # <<>>)

\* str.split(): cut at runs of white space, no empty field.
splitws(s) == filterNonEmpty(splitAt(s, Whitespace))

\* sep.join(parts)
RECURSIVE join(_, _)
join(sep, parts) ==
    IF parts = <<>> THEN <<>>
    ELSE IF Len(parts) = 1 THEN parts[1]
    ELSE LET h == Len(parts) \div 2
         IN  join(sep, SubSeq(parts, 1, h)) \o sep \o join(sep, SubSeq(parts, h + 1, Len(parts)))

\* parts[n:] with n counted from 0
from(parts, n) == SubSeq(parts, n + 1, Len(parts))

\* set(parts)
toSet(parts) == {parts[i] : i \in 1..Len(parts)}

----------------------------------------------------------------------------
(* int(str) and str(int).                                                  *)

\* The digits of int(): decimal digits, single underscores between them.
intBodyOk(d) ==
    /\ d # <<>>
    /\ \A i \in 1..Len(d) : d[i] \in Digits \/ d[i] = Code["_"]
    /\ d[1] \in Digits /\ d[Len(d)] \in Digits
    /\ \A i \in 1..(Len(d) - 1) : ~(d[i] = Code["_"] /\ d[i + 1] = Code["_"])

RECURSIVE intValue(_, _)
intValue(d, acc) ==
    IF d = <<>> THEN acc
    ELSE IF Head(d) = Code["_"] THEN intValue(Tail(d), acc)
    ELSE intValue(Tail(d), 10 * acc + (Head(d) - 48))

\* int(s): [ok |-> TRUE, val |-> n], or ok = FALSE where int raises ValueError.
int(s) ==
    LET t    == strip(s, Whitespace)
        sign == t # <<>> /\ t[1] \in {Code["-"], Code["+"]}
        d    == IF sign THEN Tail(t) ELSE t
    IN  IF intBodyOk(d)
        THEN [ok |-> TRUE,
              val |-> IF sign /\ t[1] = Code["-"] THEN 0 - intValue(d, 0) ELSE intValue(d, 0)]
        ELSE [ok |-> FALSE, val |-> 0]

RECURSIVE natStr(_)
natStr(n) == IF n < 10 THEN <<48 + n>> ELSE natStr(n \div 10) \o <<48 + (n % 10)>>

\* str(n), as an f-string formats an int
str(n) == IF n < 0 THEN <<Code["-"]>> \o natStr(0 - n) ELSE natStr(n)

----------------------------------------------------------------------------
(* bytes.decode('utf-8'), str.encode('utf-8'), base64.                     *)

isCont(b) == b \in 128..191

\* The octets one code point is encoded as.
utf8Char(c) ==
    IF c < 128 THEN <<c>>
    ELSE IF c < 2048 THEN <<192 + (c \div 64), 128 + (c % 64)>>
    ELSE IF c < 65536
         THEN <<224 + (c \div 4096), 128 + ((c \div 64) % 64), 128 + (c % 64)>>
    ELSE <<240 + (c \div 262144), 128 + ((c \div 4096) % 64),
           128 + ((c \div 64) % 64), 128 + (c % 64)>>

\* str.encode('utf-8')
RECURSIVE encode(_)
encode(s) ==
    IF s = <<>> THEN <<>>
    ELSE IF Len(s) = 1 THEN utf8Char(s[1])
    ELSE LET h == Len(s) \div 2
         IN  encode(SubSeq(s, 1, h)) \o encode(SubSeq(s, h + 1, Len(s)))

\* bytes.decode('utf-8'), octet by octet: ok = FALSE where it raises
\* UnicodeDecodeError.
RECURSIVE decodeAcc(_, _)
decodeAcc(b, acc) ==
    IF b = <<>> THEN [ok |-> TRUE, val |-> acc]
    ELSE LET b1 == b[1] IN
         IF b1 < 128 THEN decodeAcc(Tail(b), Append(acc, b1))
         ELSE IF b1 \in 194..223 /\ Len(b) >= 2 /\ isCont(b[2])
              THEN decodeAcc(SubSeq(b, 3, Len(b)), Append(acc, (b1 - 192) * 64 + (b[2] - 128)))
         ELSE IF /\ b1 \in 224..239 /\ Len(b) >= 3 /\ isCont(b[2]) /\ isCont(b[3])
                 /\ (b1 = 224 => b[2] >= 160) /\ (b1 = 237 => b[2] <= 159)
              THEN decodeAcc(SubSeq(b, 4, Len(b)),
                             Append(acc, (b1 - 224) * 4096 + (b[2] - 128) * 64 + (b[3] - 128)))
         ELSE IF /\ b1 \in 240..244 /\ Len(b) >= 4
                 /\ isCont(b[2]) /\ isCont(b[3]) /\ isCont(b[4])
                 /\ (b1 = 240 => b[2] >= 144) /\ (b1 = 244 => b[2] <= 143)
              THEN decodeAcc(SubSeq(b, 5, Len(b)),
                             Append(acc, (b1 - 240) * 262144 + (b[2] - 128) * 4096
                                         + (b[3] - 128) * 64 + (b[4] - 128)))
         ELSE [ok |-> FALSE, val |-> <<>>]

\* bytes.decode('utf-8').  A character starts at every octet that is no
\* continuation octet, and at most three of those follow one another: longer
\* input is decoded as two parts cut at such an octet near the middle.
RECURSIVE decode(_)
decode(b) ==
    IF Len(b) <= 4 THEN decodeAcc(b, <<>>)
    ELSE LET h  == Len(b) \div 2
             lo == IF h - 3 < 2 THEN 2 ELSE h - 3
             hi == IF h + 4 > Len(b) THEN Len(b) ELSE h + 4
             W  == {m \in lo..hi : ~isCont(b[m])}
         IN  IF W = {} THEN [ok |-> FALSE, val |-> <<>>]
             ELSE LET m == CHOOSE m \in W : \A x \in W : m <= x
                      l == decode(SubSeq(b, 1, m - 1))
                      r == decode(SubSeq(b, m, Len(b)))
                  IN  IF l.ok /\ r.ok THEN [ok |-> TRUE, val |-> l.val \o r.val]
                      ELSE [ok |-> FALSE, val |-> <<>>]

\* The base64 alphabet: the character of a 6-bit value, and back (64: none).
b64Char(v) ==
    IF v < 26 THEN 65 + v
    ELSE IF v < 52 THEN 97 + (v - 26)
    ELSE IF v < 62 THEN 48 + (v - 52)
    ELSE IF v = 62 THEN 43 ELSE 47

b64Value(c) ==
    IF c \in 65..90 THEN c - 65
    ELSE IF c \in 97..122 THEN c - 97 + 26
    ELSE IF c \in 48..57 THEN c - 48 + 52
    ELSE IF c = 43 THEN 62
    ELSE IF c = 47 THEN 63 ELSE 64

\* base64.b64encode(bytes), as ASCII characters: four for every three
\* octets, the last group padded with '='.
b64encode(b) ==
    LET n == Len(b)
        at(i) == IF i <= n THEN b[i] ELSE 0
        quad(g) == <<b64Char(at(3 * g + 1) \div 4),
                     b64Char((at(3 * g + 1) % 4) * 16 + (at(3 * g + 2) \div 16)),
                     IF 3 * g + 2 > n THEN 61
                     ELSE b64Char((at(3 * g + 2) % 16) * 4 + (at(3 * g + 3) \div 64)),
                     IF 3 * g + 3 > n THEN 61 ELSE b64Char(at(3 * g + 3) % 64)>>
    IN  [k \in 1..(4 * ((n + 2) \div 3)) |-> quad((k - 1) \div 4)[((k - 1) % 4) + 1]]

\* base64.b64decode(s) (validate=False).  Characters outside the alphabet
\* are skipped.  The data ends at the first '=' that completes the padding of
\* its quad (the first after three data characters of the quad, the second
\* after two); without one it ends with s, and binascii.Error is raised
\* (ok = FALSE) unless the data characters are whole quads.
b64decode(s) ==
    LET isData(i) == b64Value(s[i]) < 64
        \* the data characters of the quad open at i
        q(i) == Cardinality({j \in 1..(i - 1) : isData(j)}) % 4
        \* the '=' up to i since the last data character
        pads(i) == Cardinality({j \in 1..i : s[j] = 61
                                   /\ \A k \in (j + 1)..i : ~isData(k)})
        ends(i) == s[i] = 61 /\ q(i) >= 2 /\ q(i) + pads(i) >= 4
        closed == \E i \in 1..Len(s) : ends(i)
        stop == IF closed
                THEN CHOOSE i \in 1..Len(s) : ends(i) /\ \A j \in 1..(i - 1) : ~ends(j)
                ELSE Len(s) + 1
        data == SelectSeq(SubSeq(s, 1, stop - 1), LAMBDA c : b64Value(c) < 64)
        n == Len(data)
        v(i) == b64Value(data[i])
        octet(k) == LET g == 4 * ((k - 1) \div 3) IN
                    IF (k - 1) % 3 = 0 THEN v(g + 1) * 4 + (v(g + 2) \div 16)
                    ELSE IF (k - 1) % 3 = 1 THEN (v(g + 2) % 16) * 16 + (v(g + 3) \div 4)
                    ELSE (v(g + 3) % 4) * 64 + v(g + 4)
        len == 3 * (n \div 4) + (IF n % 4 = 0 THEN 0 ELSE (n % 4) - 1)
    IN  IF ~closed /\ n % 4 # 0 THEN [ok |-> FALSE, val |-> <<>>]
        ELSE [ok |-> TRUE, val |-> [k \in 1..len |-> octet(k)]]

----------------------------------------------------------------------------
(* Outcomes of a call, and the HTTP exchange.                              *)

Returned(v) == [exc |-> "none", msg |-> <<>>, val |-> v]
Raised(e, m) == [exc |-> e, msg |-> m, val |-> <<>>]

\* What a call did: the requests it issued and how it ended.
Outcome(reqs, r) == [requests |-> reqs, ret |-> r]

\* urllib.request.urlopen(u) / urlopen(u, data): one request; the uplink
\* answers it with the bytes of `response`.  The exchange itself succeeds:
\* a transport failure would leave the call through urlopen's own exception.
Get(u) == [method |-> "GET", url |-> u]
Post(u) == [method |-> "POST", url |-> u]

----------------------------------------------------------------------------
(* message.py                                                              *)

\* from_raw_text with the body taken from line 7 on: the separator line is
\* kept in the body.
from_raw_text_BodyFromLine7(msgid, text) ==
    LET lines == split(text, Code["NL"]) IN
    IF Len(lines) < 3 THEN Raised("IndexError", <<>>)
    ELSE IF ~int(lines[3]).ok THEN Raised("ValueError", <<>>)
    ELSE IF Len(lines) < 7 THEN Raised("IndexError", <<>>)
    ELSE Returned([msgid    |-> msgid,
                   tags     |-> lines[1],
                   echoarea |-> lines[2],
                   date     |-> int(lines[3]).val,
                   msgfrom  |-> lines[4],
                   address  |-> lines[5],
                   msgto    |-> lines[6],
                   subject  |-> lines[7],
                   body     |-> join(<<Code["NL"]>>, from(lines, 7))])

\* Message.from_raw_text(msgid, text).  The arguments of cls(...) are
\* evaluated left to right: lines[1], int(lines[2]), lines[3] .. lines[6].
from_raw_text(msgid, text) ==
    LET lines == split(text, Code["NL"]) IN
    IF Len(lines) < 3 THEN Raised("IndexError", <<>>)
    ELSE IF ~int(lines[3]).ok THEN Raised("ValueError", <<>>)
    ELSE IF Len(lines) < 7 THEN Raised("IndexError", <<>>)
    ELSE Returned([msgid    |-> msgid,
                   tags     |-> lines[1],
                   echoarea |-> lines[2],
                   date     |-> int(lines[3]).val,
                   msgfrom  |-> lines[4],
                   address  |-> lines[5],
                   msgto    |-> lines[6],
                   subject  |-> lines[7],
                   body     |-> join(<<Code["NL"]>>, from(lines, 8))])

----------------------------------------------------------------------------
(* uplink.py: construction, validators, URL joining.                       *)

\* Uplink.__init__: self.url
Uplink_init(u) == IF u # <<>> /\ u[Len(u)] = Code["/"] THEN u ELSE u \o <<Code["/"]>>

_is_areaname_correct(name) == contains(name, Code["."]) /\ isascii(name)

RECURSIVE _is_area_collection_correct_names(_)
_is_area_collection_correct_names(area_collection) ==
    IF area_collection = <<>> THEN <<TRUE, <<>>>>
    ELSE IF ~_is_areaname_correct(Head(area_collection))
         THEN <<FALSE, Head(area_collection)>>
    ELSE _is_area_collection_correct_names(Tail(area_collection))

MsgIdLen == 20

_is_msgid_correct(msgid) == ~(Len(msgid) # MsgIdLen \/ ~isascii(msgid))

\* The msgid validator reporting the last invalid id, not the first.
_is_msgid_collection_LastInvalid(msgid_collection) ==
    LET bad == {i \in 1..Len(msgid_collection) : ~_is_msgid_correct(msgid_collection[i])} IN
    IF bad = {} THEN <<TRUE, <<>>>>
    ELSE <<FALSE, msgid_collection[CHOOSE i \in bad : \A j \in bad : j <= i]>>

RECURSIVE _is_msgid_collection_correct_ids(_)
_is_msgid_collection_correct_ids(msgid_collection) ==
    IF msgid_collection = <<>> THEN <<TRUE, <<>>>>
    ELSE IF ~_is_msgid_correct(Head(msgid_collection))
         THEN <<FALSE, Head(msgid_collection)>>
    ELSE _is_msgid_collection_correct_ids(Tail(msgid_collection))

\* '/'.join(map(lambda x: x.strip('/'), args))
_urljoin(parts) ==
    join(<<Code["/"]>>, [i \in 1..Len(parts) |-> strip(parts[i], {Code["/"]})])

AreaNameErrorText(name) ==
    S(<<"i", "n", "c", "o", "r", "r", "e", "c", "t", "SP", "a", "r", "e", "a", "SP",
        "n", "a", "m", "e", ":", "SP">>) \o name

MsgIdErrorText(msgid) ==
    S(<<"i", "n", "c", "o", "r", "r", "e", "c", "t", "SP", "m", "s", "g", "i", "d",
        ":", "SP">>) \o msgid

----------------------------------------------------------------------------
(* uplink.py: the response parsers of the methods.                         *)

\* The loop of listtxt_request, flisttxt_request and xfilelist_request: one
\* item (name, int(count), description) per line; field[1] of a line with one
\* field raises IndexError.
RECURSIVE parseCatalog(_, _)
parseCatalog(lines, result) ==
    IF lines = <<>> THEN Returned(result)
    ELSE LET field == split(Head(lines), Code[":"]) IN
         IF Len(field) < 2 THEN Raised("IndexError", <<>>)
         ELSE IF ~int(field[2]).ok THEN Raised("ValueError", <<>>)
         ELSE parseCatalog(Tail(lines),
                           Append(result, [name        |-> field[1],
                                           count       |-> int(field[2]).val,
                                           description |-> join(<<Code[":"]>>, from(field, 2))]))

\* response.read().decode('utf-8').strip().split('\n'), then the loop
catalog(body) ==
    IF ~decode(body).ok THEN Raised("UnicodeDecodeError", <<>>)
    ELSE parseCatalog(split(strip(decode(body).val, Whitespace), Code["NL"]), <<>>)

\* tuple(map(str, filter(lambda x: x, text.split())))
idTokens(body) ==
    IF ~decode(body).ok THEN Raised("UnicodeDecodeError", <<>>)
    ELSE Returned(filterNonEmpty(splitws(decode(body).val)))

\* tuple(text.strip().split('\n'))
lineTokens(body) ==
    IF ~decode(body).ok THEN Raised("UnicodeDecodeError", <<>>)
    ELSE Returned(split(strip(decode(body).val, Whitespace), Code["NL"]))

\* The loop of um_request putting each Message in front of the result.
RECURSIVE parseBundle_Prepending(_, _)
parseBundle_Prepending(tokens, result) ==
    IF tokens = <<>> THEN Returned(result)
    ELSE LET pair == split1(Head(tokens), Code[":"]) IN
         IF Len(pair) # 2 THEN Raised("ValueError", <<>>)
         ELSE IF ~isascii(pair[2]) THEN Raised("ValueError", <<>>)
         ELSE IF ~b64decode(pair[2]).ok THEN Raised("binascii.Error", <<>>)
         ELSE IF ~decode(b64decode(pair[2]).val).ok THEN Raised("UnicodeDecodeError", <<>>)
         ELSE LET m == from_raw_text(pair[1], decode(b64decode(pair[2]).val).val) IN
              IF m.exc # "none" THEN m
              ELSE parseBundle_Prepending(Tail(tokens), <<m.val>> \o result)

\* The loop of um_request: msgid, encoded = line.split(':', 1), then
\* Message.from_raw_text(msgid, b64decode(encoded).decode()).
RECURSIVE parseBundle(_, _)
parseBundle(tokens, result) ==
    IF tokens = <<>> THEN Returned(result)
    ELSE LET pair == split1(Head(tokens), Code[":"]) IN
         IF Len(pair) # 2 THEN Raised("ValueError", <<>>)
         ELSE IF ~isascii(pair[2]) THEN Raised("ValueError", <<>>)
         ELSE IF ~b64decode(pair[2]).ok THEN Raised("binascii.Error", <<>>)
         ELSE IF ~decode(b64decode(pair[2]).val).ok THEN Raised("UnicodeDecodeError", <<>>)
         ELSE LET m == from_raw_text(pair[1], decode(b64decode(pair[2]).val).val) IN
              IF m.exc # "none" THEN m
              ELSE parseBundle(Tail(tokens), Append(result, m.val))

\* The loop of xc_request: result[field[0]] = int(field[1])
RECURSIVE parseCounts(_, _)
parseCounts(lines, result) ==
    IF lines = <<>> THEN Returned(result)
    ELSE LET field == split(Head(lines), Code[":"]) IN
         IF Len(field) < 2 THEN Raised("IndexError", <<>>)
         ELSE IF ~int(field[2]).ok THEN Raised("ValueError", <<>>)
         ELSE parseCounts(Tail(lines), (field[1] :> int(field[2]).val) @@ result)

\* The loop of fe_request never taking a header line for the filearea.
RECURSIVE parseFileAreas_HeaderIgnored(_, _, _)
parseFileAreas_HeaderIgnored(lines, area_name, result) ==
    IF lines = <<>> THEN Returned(result)
    ELSE LET field == split(Head(lines), Code[":"]) IN
         IF Len(field) = 1 THEN parseFileAreas_HeaderIgnored(Tail(lines), area_name, result)
         ELSE IF Len(field) < 3 THEN Raised("IndexError", <<>>)
         ELSE IF ~int(field[3]).ok THEN Raised("ValueError", <<>>)
         ELSE IF Len(field) < 4 THEN Raised("IndexError", <<>>)
         ELSE parseFileAreas_HeaderIgnored(Tail(lines), area_name,
                             Append(result, [filearea    |-> area_name,
                                             fid         |-> field[1],
                                             name        |-> field[2],
                                             size        |-> int(field[3]).val,
                                             address     |-> field[4],
                                             description |-> join(<<Code[":"]>>, from(field, 4))]))

\* The loop of fe_request: a line of one field names the filearea of the
\* items after it.
RECURSIVE parseFileAreas(_, _, _)
parseFileAreas(lines, area_name, result) ==
    IF lines = <<>> THEN Returned(result)
    ELSE LET field == split(Head(lines), Code[":"]) IN
         IF Len(field) = 1 THEN parseFileAreas(Tail(lines), field[1], result)
         ELSE IF Len(field) < 3 THEN Raised("IndexError", <<>>)
         ELSE IF ~int(field[3]).ok THEN Raised("ValueError", <<>>)
         ELSE IF Len(field) < 4 THEN Raised("IndexError", <<>>)
         ELSE parseFileAreas(Tail(lines), area_name,
                             Append(result, [filearea    |-> area_name,
                                             fid         |-> field[1],
                                             name        |-> field[2],
                                             size        |-> int(field[3]).val,
                                             address     |-> field[4],
                                             description |-> join(<<Code[":"]>>, from(field, 4))]))

----------------------------------------------------------------------------
(* uplink.py: the methods.  Each gives the requests it issued and how it   *)
(* ended, for self.url = u and the response bytes body.                    *)

Uplink_listtxt_request(u, body) ==
    Outcome(<<Get(_urljoin(<<u, S(<<"l", "i", "s", "t", ".", "t", "x", "t">>)>>))>>,
            catalog(body))

Uplink_blacklisttxt_request(u, body) ==
    Outcome(<<Get(_urljoin(<<u, S(<<"b", "l", "a", "c", "k", "l", "i", "s", "t", ".",
                                    "t", "x", "t">>)>>))>>,
            IF ~decode(body).ok THEN Raised("UnicodeDecodeError", <<>>)
            ELSE Returned(toSet(filterNonEmpty(splitws(decode(body).val)))))

Uplink_e_request(u, area, body) ==
    IF ~_is_areaname_correct(area)
    THEN Outcome(<<>>, Raised("AreaNameError", AreaNameErrorText(area)))
    ELSE Outcome(<<Get(_urljoin(<<u, S(<<"e">>), area>>))>>, idTokens(body))

Uplink_m_request(u, msgid, body) ==
    IF ~_is_msgid_correct(msgid)
    THEN Outcome(<<>>, Raised("MsgIdError", MsgIdErrorText(msgid)))
    ELSE Outcome(<<Get(_urljoin(<<u, S(<<"m">>), msgid>>))>>,
                 IF ~decode(body).ok THEN Raised("UnicodeDecodeError", <<>>)
                 ELSE from_raw_text(msgid, decode(body).val))

\* The URL of ue_request with the slice added whenever start is non-zero.
ue_url_SliceOnStart(u, area_collection, start, end) ==
    IF start # 0
    THEN _urljoin(<<u, S(<<"u", "/", "e">>)>> \o area_collection
                  \o <<<<Code["/"]>> \o str(start) \o <<Code[":"]>> \o str(end)>>)
    ELSE _urljoin(<<u, S(<<"u", "/", "e", "/">>)>> \o area_collection)

\* The URL of ue_request
ue_url(u, area_collection, start, end) ==
    IF start # 0 /\ end # 0
    THEN _urljoin(<<u, S(<<"u", "/", "e">>)>> \o area_collection
                  \o <<<<Code["/"]>> \o str(start) \o <<Code[":"]>> \o str(end)>>)
    ELSE _urljoin(<<u, S(<<"u", "/", "e", "/">>)>> \o area_collection)

\* ue_request checking the names only after the request was made.
Uplink_ue_request_ChecksAfter(u, area_collection, start, end, body) ==
    LET check == _is_area_collection_correct_names(area_collection) IN
    Outcome(<<Get(ue_url(u, area_collection, start, end))>>,
            IF ~check[1] THEN Raised("AreaNameError", AreaNameErrorText(check[2]))
            ELSE idTokens(body))

Uplink_ue_request(u, area_collection, start, end, body) ==
    LET check == _is_area_collection_correct_names(area_collection) IN
    IF ~check[1]
    THEN Outcome(<<>>, Raised("AreaNameError", AreaNameErrorText(check[2])))
    ELSE Outcome(<<Get(ue_url(u, area_collection, start, end))>>, idTokens(body))

Uplink_um_request(u, msgid_collection, body) ==
    LET check == _is_msgid_collection_correct_ids(msgid_collection) IN
    IF ~check[1]
    THEN Outcome(<<>>, Raised("MsgIdError", MsgIdErrorText(check[2])))
    ELSE Outcome(<<Get(_urljoin(<<u, S(<<"u", "/", "m">>)>> \o msgid_collection))>>,
                 IF ~decode(body).ok THEN Raised("UnicodeDecodeError", <<>>)
                 ELSE parseBundle(splitws(decode(body).val), <<>>))

Uplink_xc_request(u, area_collection, body) ==
    Outcome(<<Get(_urljoin(<<u, S(<<"x", "/", "c">>)>> \o area_collection))>>,
            IF ~decode(body).ok THEN Raised("UnicodeDecodeError", <<>>)
            ELSE parseCounts(split(strip(decode(body).val, Whitespace), Code["NL"]), <<>>))

Uplink_xfeatures_request(u, body) ==
    Outcome(<<Get(u \o S(<<"x", "/", "f", "e", "a", "t", "u", "r", "e", "s">>))>>,
            lineTokens(body))

Uplink_xfilelist_request(u, body) ==
    Outcome(<<Post(u \o S(<<"x", "/", "f", "i", "l", "e", "l", "i", "s", "t">>))>>,
            catalog(body))

Uplink_flisttxt_request(u, body) ==
    Outcome(<<Get(u \o S(<<"f", "/", "l", "i", "s", "t", ".", "t", "x", "t">>))>>,
            catalog(body))

Uplink_fblacklisttxt_request(u, body) ==
    Outcome(<<Get(u \o S(<<"f", "/", "b", "l", "a", "c", "k", "l", "i", "s", "t", ".",
                           "t", "x", "t">>))>>,
            lineTokens(body))

\* The URL of fe_request
fe_url(u, filearea_collection, start, end) ==
    IF start # 0 /\ end # 0
    THEN _urljoin(<<u, S(<<"f", "/", "e">>)>> \o filearea_collection
                  \o <<str(start) \o <<Code[":"]>> \o str(end)>>)
    ELSE _urljoin(<<u, S(<<"f", "/", "e">>)>> \o filearea_collection)

Uplink_fe_request(u, filearea_collection, start, end, body) ==
    Outcome(<<Get(fe_url(u, filearea_collection, start, end))>>,
            IF ~decode(body).ok THEN Raised("UnicodeDecodeError", <<>>)
            ELSE parseFileAreas(split(strip(decode(body).val, Whitespace), Code["NL"]),
                                <<>>, <<>>))

----------------------------------------------------------------------------
(* Actions: one call of one method.                                        *)

Call(name, outcome) ==
    /\ pc' = "done"
    /\ op' = name
    /\ requests' = outcome.requests
    /\ ret' = outcome.ret
    /\ UNCHANGED <<url, args, uplink, response>>

listtxt_request ==
    /\ pc = "ready"
    /\ Call("listtxt_request", Uplink_listtxt_request(url, response))

blacklisttxt_request ==
    /\ pc = "ready"
    /\ Call("blacklisttxt_request", Uplink_blacklisttxt_request(url, response))

e_request ==
    /\ pc = "ready"
    /\ Call("e_request", Uplink_e_request(url, args.name, response))

m_request ==
    /\ pc = "ready"
    /\ Call("m_request", Uplink_m_request(url, args.name, response))

ue_request ==
    /\ pc = "ready"
    /\ Call("ue_request", Uplink_ue_request(url, args.coll, args.start, args.end, response))

um_request ==
    /\ pc = "ready"
    /\ Call("um_request", Uplink_um_request(url, args.coll, response))

xc_request ==
    /\ pc = "ready"
    /\ Call("xc_request", Uplink_xc_request(url, args.coll, response))

xfeatures_request ==
    /\ pc = "ready"
    /\ Call("xfeatures_request", Uplink_xfeatures_request(url, response))

xfilelist_request ==
    /\ pc = "ready"
    /\ Call("xfilelist_request", Uplink_xfilelist_request(url, response))

flisttxt_request ==
    /\ pc = "ready"
    /\ Call("flisttxt_request", Uplink_flisttxt_request(url, response))

fblacklisttxt_request ==
    /\ pc = "ready"
    /\ Call("fblacklisttxt_request", Uplink_fblacklisttxt_request(url, response))

fe_request ==
    /\ pc = "ready"
    /\ Call("fe_request", Uplink_fe_request(url, args.coll, args.start, args.end, response))

\* The static validators and Message.from_raw_text, called directly.
area_collection_check ==
    /\ pc = "ready"
    /\ Call("_is_area_collection_correct_names",
         Outcome(<<>>, Returned(_is_area_collection_correct_names(args.coll))))

msgid_collection_check ==
    /\ pc = "ready"
    /\ Call("_is_msgid_collection_correct_ids",
         Outcome(<<>>, Returned(_is_msgid_collection_correct_ids(args.coll))))

message_from_raw_text ==
    /\ pc = "ready"
    /\ Call("from_raw_text", Outcome(<<>>, from_raw_text(args.name, args.text)))

----------------------------------------------------------------------------
(* Inputs.                                                                 *)

MaxColl == 3

\* All sequences of at most n elements of set
SeqsUpTo(set, n) == UNION {[1..k -> set] : k \in 0..n}

\* The url argument of Uplink(url), with and without its final slash
BaseUrls == {S(<<"h", "t", "t", "p", ":", "/", "/", "h">>),
             S(<<"h", "t", "t", "p", ":", "/", "/", "h", "/">>)}

\* Area names: with a dot, without, not ASCII, empty
NameCandidates == {S(<<"a", ".", "b">>), S(<<".">>), S(<<"a", "b">>),
                   S(<<"eacute", ".", "b">>), <<>>}

\* Message ids: 20 characters, 19, 21, and 20 that are not all ASCII
IdCandidates == {Rep("a", MsgIdLen), Rep(".", MsgIdLen), Rep("a", MsgIdLen - 1),
                 Rep("a", MsgIdLen + 1), Rep("a", MsgIdLen - 1) \o S(<<"eacute">>)}

NoArgs == [name |-> <<>>, coll |-> <<>>, start |-> 0, end |-> 0, text |-> <<>>]

\* The state before the call
Ready(a, held, body) ==
    /\ url \in {Uplink_init(u) : u \in BaseUrls}
    /\ args = a
    /\ uplink = held
    /\ response = body
    /\ pc = "ready"
    /\ op = "none"
    /\ requests = <<>>
    /\ ret = Returned(<<>>)

----------------------------------------------------------------------------
(* SpecIdent: calls whose arguments are area names and message ids.        *)

IdentBodies == {encode(S(<<"a", ".", "b", ":", "1", "NL">>))}

InitIdent ==
    \E body \in IdentBodies :
       \/ \E n \in NameCandidates \cup IdCandidates :
             Ready([NoArgs EXCEPT !.name = n], <<>>, body)
       \/ \E c \in SeqsUpTo(NameCandidates \cup IdCandidates, MaxColl) :
             Ready([NoArgs EXCEPT !.coll = c], <<>>, body)

NextIdent ==
    \/ e_request
    \/ m_request
    \/ ue_request
    \/ um_request
    \/ xc_request
    \/ area_collection_check
    \/ msgid_collection_check

SpecIdent == InitIdent /\ [][NextIdent]_vars

\* An area name as the protocol has it: ASCII, with a dot
AsciiWithDot(n) == (\A i \in 1..Len(n) : n[i] < 128) /\ (\E i \in 1..Len(n) : n[i] = 46)

\* A message id as the protocol has it: ASCII, 20 characters
Ascii20(n) == (\A i \in 1..Len(n) : n[i] < 128) /\ Len(n) = 20

AnyBadName(c) == \E i \in 1..Len(c) : ~AsciiWithDot(c[i])
AnyBadId(c) == \E i \in 1..Len(c) : ~Ascii20(c[i])

\* The first element of c, in order, that is no area name / no message id
FirstBadName(c) ==
    c[CHOOSE i \in 1..Len(c) : ~AsciiWithDot(c[i]) /\ \A j \in 1..(i - 1) : AsciiWithDot(c[j])]

FirstBadId(c) ==
    c[CHOOSE i \in 1..Len(c) : ~Ascii20(c[i]) /\ \A j \in 1..(i - 1) : Ascii20(c[j])]

\* msg names the identifier: it ends with it
Names(msg, id) == Len(msg) >= Len(id) /\ SubSeq(msg, Len(msg) - Len(id) + 1, Len(msg)) = id

RaisedFor(kind, id) == ret.exc = kind /\ Names(ret.msg, id) /\ requests = <<>>

\* C1: e_request, m_request, ue_request and um_request called with an invalid
\* identifier (or a collection holding one) raise AreaNameError / MsgIdError
\* naming the first invalid identifier, and issue no HTTP request.
C1_InvalidIdentifierRaisesBeforeRequest ==
    pc = "done" =>
       /\ (op = "e_request" /\ ~AsciiWithDot(args.name))
             => RaisedFor("AreaNameError", args.name)
       /\ (op = "m_request" /\ ~Ascii20(args.name))
             => RaisedFor("MsgIdError", args.name)
       /\ (op = "ue_request" /\ AnyBadName(args.coll))
             => RaisedFor("AreaNameError", FirstBadName(args.coll))
       /\ (op = "um_request" /\ AnyBadId(args.coll))
             => RaisedFor("MsgIdError", FirstBadId(args.coll))

\* ue_request was called with a valid first name and two different invalid
\* names after it, and raised.
C1_Witness ==
    /\ pc = "done" /\ op = "ue_request" /\ Len(args.coll) = 3
    /\ AsciiWithDot(args.coll[1]) /\ ~AsciiWithDot(args.coll[2]) /\ ~AsciiWithDot(args.coll[3])
    /\ args.coll[2] # args.coll[3]
    /\ ret.exc = "AreaNameError"

\* C2: xc_request called with a collection holding an invalid area name
\* raises AreaNameError on the first invalid name and issues no HTTP request.
C2_XcValidatesBeforeRequest ==
    (pc = "done" /\ op = "xc_request" /\ AnyBadName(args.coll))
       => RaisedFor("AreaNameError", FirstBadName(args.coll))

\* C3: the collection validators return (False, n) for the first element n
\* that is not ASCII-with-a-dot (not ASCII-of-length-20), and (True, '') when
\* there is none, the empty collection included.
C3_CollectionValidators ==
    pc = "done" =>
       /\ op = "_is_area_collection_correct_names" =>
             ret.val = IF AnyBadName(args.coll) THEN <<FALSE, FirstBadName(args.coll)>>
                       ELSE <<TRUE, <<>>>>
       /\ op = "_is_msgid_collection_correct_ids" =>
             ret.val = IF AnyBadId(args.coll) THEN <<FALSE, FirstBadId(args.coll)>>
                       ELSE <<TRUE, <<>>>>

\* The msgid validator met a valid id, then two different invalid ones.
C3_Witness ==
    /\ pc = "done" /\ op = "_is_msgid_collection_correct_ids" /\ Len(args.coll) = 3
    /\ Ascii20(args.coll[1]) /\ ~Ascii20(args.coll[2]) /\ ~Ascii20(args.coll[3])
    /\ args.coll[2] # args.coll[3]
    /\ ret.val = <<FALSE, args.coll[2]>>

----------------------------------------------------------------------------
(* SpecUrl: the URLs of the range-qualified endpoints.                     *)

MaxUrlColl == 2
MaxSlice == 2

\* Names with and without slashes; the empty name (fe_request takes any)
UrlNames == {S(<<"a", ".", "b">>), S(<<"c", ".", "d">>), S(<<"/", "c", ".", "d", "/">>),
             S(<<"a", "/", ".", "b">>), <<>>}

\* start and end: small, zero, negative, and of more than one digit
SliceValues == ((0 - MaxSlice)..MaxSlice) \cup {0 - 50, 127}

InitUrl ==
    \E c \in SeqsUpTo(UrlNames, MaxUrlColl), s \in SliceValues, e \in SliceValues :
       Ready([NoArgs EXCEPT !.coll = c, !.start = s, !.end = e], <<>>, encode(S(<<"a", "NL">>)))

NextUrl ==
    \/ ue_request
    \/ fe_request

SpecUrl == InitUrl /\ [][NextUrl]_vars

\* The path segments of the requested URL after the n segments of the
\* endpoint: self.url without its final slash, then n more.
SegmentsAfter(n) ==
    from(split(requests[1].url, 47), Len(split(SubSeq(url, 1, Len(url) - 1), 47)) + n)

Sliced == args.start # 0 /\ args.end # 0

\* '<start>:<end>'
SliceSegment == str(args.start) \o <<58>> \o str(args.end)

\* The segments the claim expects: the elements, then the slice if any
ExpectedSegments == args.coll \o (IF Sliced THEN <<SliceSegment>> ELSE <<>>)

UrlCall == pc = "done" /\ op \in {"ue_request", "fe_request"} /\ requests # <<>>

NoSlashIn(c) == \A i \in 1..Len(c) : \A j \in 1..Len(c[i]) : c[i][j] # 47

\* C4 as stated: the segments after 'u/e' / 'f/e' are the collection
\* elements in order, followed by '<start>:<end>' exactly when start and end
\* are both non-zero.
C4_SegmentsAreElements == UrlCall => SegmentsAfter(2) = ExpectedSegments

\* C4, amended: for a collection whose names hold no '/', the segments of
\* the requested URL after 'u/e' / 'f/e' are the collection elements in
\* order, followed by '<start>:<end>' exactly when start and end are both
\* non-zero (a negative start included).
C4_SegmentsAreElementsNoSlash ==
    (UrlCall /\ NoSlashIn(args.coll)) => SegmentsAfter(2) = ExpectedSegments

\* ue_request with two different names, a negative start and a non-zero end
C4_Witness ==
    /\ UrlCall /\ op = "ue_request" /\ NoSlashIn(args.coll)
    /\ Len(args.coll) = 2 /\ args.coll[1] # args.coll[2]
    /\ args.start < 0 /\ args.end > 0
    /\ SegmentsAfter(2)[3] = SliceSegment

----------------------------------------------------------------------------
(* SpecCatalog: list.txt, f/list.txt and x/filelist.                       *)

MaxBodyLen == 5

\* Line break, space, colon, a digit, a letter
CatalogChars == {Code["NL"], Code["SP"], Code[":"], Code["5"], Code["a"]}

InitCatalog ==
    \E text \in SeqsUpTo(CatalogChars, MaxBodyLen) : Ready(NoArgs, <<>>, encode(text))

NextCatalog ==
    \/ listtxt_request
    \/ flisttxt_request
    \/ xfilelist_request

SpecCatalog == InitCatalog /\ [][NextCatalog]_vars

\* The lines of the response body (the bodies here are ASCII)
BodyLines == split(response, 10)

Fields(line) == split(line, 58)

\* The lines of at least two fields, in order
RECURSIVE Records(_)
Records(lines) ==
    IF lines = <<>> THEN <<>>
    ELSE (IF Len(Fields(Head(lines))) >= 2 THEN <<Head(lines)>> ELSE <<>>)
         \o Records(Tail(lines))

CatalogItem(line) ==
    [name        |-> Fields(line)[1],
     count       |-> int(Fields(line)[2]).val,
     description |-> join(<<58>>, from(Fields(line), 2))]

CatalogCall ==
    pc = "done" /\ op \in {"listtxt_request", "flisttxt_request", "xfilelist_request"}

\* C5: the catalog endpoints return one record per line of at least two
\* fields (whose field 1 is an integer), in line order; blank lines and
\* lines of fewer than two fields give no record and no error.
C5_ShortLinesSkipped ==
    (CatalogCall /\ \A i \in 1..Len(Records(BodyLines)) : int(Fields(Records(BodyLines)[i])[2]).ok)
       => /\ ret.exc = "none"
          /\ ret.val = [i \in 1..Len(Records(BodyLines)) |-> CatalogItem(Records(BodyLines)[i])]

----------------------------------------------------------------------------
(* SpecTokens: blacklist.txt, x/features and f/blacklist.txt.              *)

TokenChars == {Code["NL"], Code["SP"], Code["a"], Code["b"]}

InitTokens ==
    \E text \in SeqsUpTo(TokenChars, MaxBodyLen) : Ready(NoArgs, <<>>, encode(text))

NextTokens ==
    \/ blacklisttxt_request
    \/ xfeatures_request
    \/ fblacklisttxt_request

SpecTokens == InitTokens /\ [][NextTokens]_vars

\* The elements of a returned collection, a set or a tuple
Elements(v) == IF op = "blacklisttxt_request" THEN v ELSE {v[i] : i \in 1..Len(v)}

TokenCall ==
    pc = "done"
    /\ op \in {"blacklisttxt_request", "xfeatures_request", "fblacklisttxt_request"}

\* C10: the token-list endpoints drop empty tokens: no element of the result
\* is the empty string, an empty body gives an empty collection, and
\* xfeatures_request returns the non-empty lines of the body in order.
C10_NoEmptyToken ==
    TokenCall =>
       /\ ret.exc = "none"
       /\ <<>> \notin Elements(ret.val)
       /\ response = <<>> => Elements(ret.val) = {}
       /\ op = "xfeatures_request" => ret.val = filterNonEmpty(BodyLines)

----------------------------------------------------------------------------
(* SpecMessage: Message.from_raw_text, directly and through m_request.     *)
(* The uplink holds the message as its lines.                              *)

MaxLines == 10

\* An empty line, an integer, a line that is neither (and not ASCII)
LineCandidates == {<<>>, S(<<"-", "7">>), S(<<"eacute">>)}

RawText(lines) == join(<<Code["NL"]>>, lines)

InitMessage ==
    \E k \in 1..MaxLines : \E lines \in [1..k -> LineCandidates] :
       Ready([NoArgs EXCEPT !.name = Rep("a", MsgIdLen), !.text = RawText(lines)],
             lines, encode(RawText(lines)))

NextMessage ==
    \/ message_from_raw_text
    \/ m_request

SpecMessage == InitMessage /\ [][NextMessage]_vars

MessageCall == pc = "done" /\ op \in {"from_raw_text", "m_request"}

\* The Message the claim expects of the lines L under the id m
ExpectedMessage(m, L) ==
    [msgid    |-> m,
     tags     |-> L[1],
     echoarea |-> L[2],
     date     |-> int(L[3]).val,
     msgfrom  |-> L[4],
     address  |-> L[5],
     msgto    |-> L[6],
     subject  |-> L[7],
     body     |-> RawText(SubSeq(L, 9, Len(L)))]

\* C6: from a text of at least 9 lines whose line 2 is an integer,
\* from_raw_text returns the Message of the caller's msgid, of lines 0..6
\* (date as int) and of body lines 8.. joined by '\n'; line 7 is in no field:
\* the result is the same whatever line 7 holds.
C6_FromRawText ==
    (MessageCall /\ op = "from_raw_text" /\ Len(uplink) >= 9 /\ int(uplink[3]).ok)
       => /\ ret = Returned(ExpectedMessage(args.name, uplink))
          /\ \A x \in LineCandidates :
                from_raw_text(args.name, RawText([uplink EXCEPT ![8] = x])) = ret

\* A text of 10 lines with a non-empty line 7 and a body of two lines
C6_Witness ==
    /\ MessageCall /\ op = "from_raw_text" /\ Len(uplink) = 10 /\ int(uplink[3]).ok
    /\ uplink[8] # <<>> /\ uplink[9] # <<>> /\ uplink[10] # <<>> /\ uplink[1] # uplink[8]
    /\ ret.exc = "none" /\ ret.val.date = 0 - 7

\* C7: from a text of fewer than 9 lines no Message is built: from_raw_text
\* (and m_request on such a response body) raises.
C7_ShortTextRaises ==
    (MessageCall /\ Len(uplink) < 9) => ret.exc # "none"

----------------------------------------------------------------------------
(* SpecBatch: um_request on a well-formed bundle.  The uplink holds the    *)
(* messages it bundles, each an id and the lines of its text, and answers  *)
(* with one 'msgid:base64(text)' token per message.                        *)

MaxTokens == 2

\* Texts of 9 lines and more whose line 2 is an integer
BundleTexts ==
    {<<S(<<"t">>), S(<<"a", ".", "b">>), S(<<"7">>), S(<<"f">>), S(<<"a", "d">>),
       S(<<"t", "o">>), S(<<"s">>), <<>>, S(<<"h", "i">>)>>,
     <<<<>>, <<>>, S(<<"-", "7">>), <<>>, <<>>, <<>>, <<>>, S(<<"eacute">>), S(<<"x">>),
       <<>>, S(<<"eacute">>)>>,
     <<<<>>, <<>>, S(<<"1">>), <<>>, <<>>, <<>>, <<>>, <<>>, <<>>>>}

\* The ids the uplink answers with: two message ids and a short token
BundleIds == {Rep("a", MsgIdLen), Rep(".", MsgIdLen), S(<<"x">>)}

\* The ids the caller asks for
RequestedIds == {<<>>, <<Rep("a", MsgIdLen)>>, <<Rep(".", MsgIdLen), Rep("a", MsgIdLen)>>}

\* White space between two tokens, and after the last
Separators == {S(<<"NL">>), S(<<"SP", "NL">>)}

Token(m) == m.msgid \o <<Code[":"]>> \o b64encode(encode(RawText(m.lines)))

Bundle(held, sep) == join(sep, [i \in 1..Len(held) |-> Token(held[i])]) \o sep

InitBatch ==
    \E held \in SeqsUpTo([msgid : BundleIds, lines : BundleTexts], MaxTokens),
       sep \in Separators, c \in RequestedIds :
       Ready([NoArgs EXCEPT !.coll = c], held, encode(Bundle(held, sep)))

NextBatch == um_request

SpecBatch == InitBatch /\ [][NextBatch]_vars

\* C8: on a well-formed bundle of n tokens um_request returns n Messages in
\* token order; the i-th has the id before the first ':' of the i-th token
\* (not the requested id) and the fields of that same token's text.
C8_BundleInTokenOrder ==
    (pc = "done" /\ op = "um_request")
       => ret = Returned([i \in 1..Len(uplink) |->
                             ExpectedMessage(uplink[i].msgid, uplink[i].lines)])

\* Two tokens of different ids and texts, answered to a request for other ids
C8_Witness ==
    /\ pc = "done" /\ op = "um_request" /\ Len(uplink) = 2 /\ Len(args.coll) = 2
    /\ uplink[1].msgid # uplink[2].msgid /\ uplink[1].lines # uplink[2].lines
    /\ args.coll[1] # uplink[1].msgid /\ args.coll[2] # uplink[2].msgid
    /\ Len(ret.val) = 2

----------------------------------------------------------------------------
(* SpecFileArea: fe_request on a filearea index.  The uplink holds the     *)
(* lines of the index: headers and items.                                  *)

MaxFeLines == 4

\* Headers (two names, a blank line, a line of one space) and items (four
\* fields; more, with a space at the end)
FeLines == {S(<<"h">>), S(<<"g">>), <<>>, S(<<"SP">>),
            S(<<"1", ":", "a", ":", "5", ":", "b">>),
            S(<<"2", ":", "c", ":", "7", ":", "d", ":", "e", ":", "f", "SP">>)}

InitFileArea ==
    \E k \in 1..MaxFeLines : \E lines \in [1..k -> FeLines] :
       Ready([NoArgs EXCEPT !.coll = <<S(<<"h">>), S(<<"g">>)>>], lines, encode(RawText(lines)))

NextFileArea == fe_request

SpecFileArea == InitFileArea /\ [][NextFileArea]_vars

IsItem(line) == \E i \in 1..Len(line) : line[i] = 58

\* The header a line is under: the last line before it that is no item
HeaderOf(L, i) ==
    LET H == {j \in 1..(i - 1) : ~IsItem(L[j])} IN
    IF H = {} THEN <<>> ELSE L[CHOOSE j \in H : \A x \in H : x <= j]

\* The index of the k-th item line of L
ItemIndex(L, k) ==
    CHOOSE i \in 1..Len(L) : IsItem(L[i]) /\ Cardinality({j \in 1..i : IsItem(L[j])}) = k

ExpectedFileAreaItem(L, i) ==
    [filearea    |-> HeaderOf(L, i),
     fid         |-> Fields(L[i])[1],
     name        |-> Fields(L[i])[2],
     size        |-> int(Fields(L[i])[3]).val,
     address     |-> Fields(L[i])[4],
     description |-> join(<<58>>, from(Fields(L[i]), 4))]

\* One FileAreaItem per item line of L, in line order
ExpectedIndex(L) ==
    [k \in 1..Cardinality({i \in 1..Len(L) : IsItem(L[i])}) |->
        ExpectedFileAreaItem(L, ItemIndex(L, k))]

FeCall == pc = "done" /\ op = "fe_request"

\* The lines of the response once the white space around it is removed
StrippedLines == split(strip(decode(response).val, Whitespace), 10)

\* C9 as stated: fe_request returns one FileAreaItem per item line of the
\* response, in line order, each under the most recent header line before it
\* ('' if none), with description the fields 4.. joined by ':'.
C9_ItemsUnderLastHeader == FeCall => ret = Returned(ExpectedIndex(uplink))

\* C9, amended: of the lines of the response with the white space at its
\* start and at its end removed, fe_request returns one FileAreaItem per item
\* line, in line order, each under the most recent header line before it
\* ('' if none), with description the fields 4.. joined by ':'; a header
\* line gives no record.
C9_ItemsUnderLastHeaderStripped == FeCall => ret = Returned(ExpectedIndex(StrippedLines))

\* Two items under two different headers
C9_Witness ==
    /\ FeCall /\ ret.exc = "none" /\ Len(ret.val) = 2
    /\ ret.val[1].filearea # <<>> /\ ret.val[2].filearea # <<>>
    /\ ret.val[1].filearea # ret.val[2].filearea
    /\ ret.val[1].description # ret.val[2].description

============================================================================
